---- MODULE Spec2Model ----
(***************************************************************************)
(* A model of the pyre client: root resolution (switch_root,              *)
(* find_log_directory), analysis-directory selection                      *)
(* (resolve_analysis_directory), the daemon lifecycle commands and main(). *)
(***************************************************************************)
EXTENDS Integers, Sequences, FiniteSets, TLC

(***************************************************************************)
(* Bounds of the model.                                                    *)
(***************************************************************************)
\* Depth of the directory chain below the filesystem root.
MaxDepth == 3

\* Most source directories given on the command line, or configured.
MaxSources == 2

\* Most build targets given on the command line, or configured.
MaxTargets == 2

\* Number of process ids a daemon can get.
MaxPid == 2

\* Number of start invocations that run at the same time.
MaxStarters == 3

\* The local configurations of a project.
MaxLocals == 2

(***************************************************************************)
(* The state.                                                              *)
(***************************************************************************)
\* Root resolution (switch_root, find_log_directory).
VARIABLES
    globalMarkers,   \* directories holding .pyre_configuration
    localMarkers,    \* directories holding .pyre_configuration.local
    cwd,             \* the process's working directory, os.getcwd()
    arguments,       \* original_directory, current_directory,
                     \* local_configuration, log_directory
    rootRaised,      \* the exception switch_root raised
    rootPc           \* "start", "switched", "logged", "raised"

\* Analysis-directory selection (resolve_analysis_directory).
VARIABLES
    dirArguments,      \* arguments: source_directories, targets, build,
                       \* use_buck_builder, use_legacy_builder
    dirConfiguration,  \* configuration as given: source_directories,
                       \* targets, use_buck_builder, search_path
    dirCommand,        \* arguments.command
    dirIsolate,        \* the isolate parameter
    buckRootFound,     \* buck.find_buck_root(os.getcwd()) finds a root
    analysisResult,    \* what resolve_analysis_directory returned or raised
    dirPc              \* "start", "resolved"

\* The daemon of the project root, as the file system and the process
\* table show it.
VARIABLES
    lockFile,        \* content of the lock file (characters), or None
    alive            \* process ids of the live daemon processes

\* One invocation of main().
VARIABLES
    pc,                  \* where main is
    invocation,          \* the command line: given command, watchman
                         \* installed, resolved command, --version
    loadedConfiguration,       \* the Configuration loaded: loaded, disabled, logger
    analysis_directory,  \* the analysis directory constructed
    exit_code,           \* main's local exit_code
    returning,           \* value of a return statement inside the try
    returned,            \* what main returned
    raised,              \* the exception in flight
    stateAtRun,          \* _state() when the command's run() began
    ran,                 \* the command's run() completed
    cleaned,             \* analysis_directory.cleanup() was called
    nullServer,          \* run_null_server was started
    directoryRequest,    \* what the analysis directory was asked for
    interactions,        \* daemon-directed steps of this invocation
    previous             \* how the invocation before this one ended

\* Start invocations racing for the same root.
VARIABLES
    racePc,          \* per invocation: "probe", "spawn", "done"
    raceSpawned      \* number of daemons the invocations spawned

\* The flag list of a command.
VARIABLES
    flagsInput,      \* logging sections, project root, configuration.logger
    flagsList,       \* the list _flags returned
    flagsBefore,     \* the list _flags returned before the logger was set
    flagsPc          \* "made", "built", "logger_set", "rebuilt"

\* The filter paths of an analysis directory.
VARIABLES
    filterArguments,      \* source_directories, targets, filter_directory,
                          \* original_directory
    filterConfiguration,  \* local_configuration_root
    filterPaths,          \* filter_paths of resolve_analysis_directory
    filterPc              \* "start", "resolved"

\* The version that get_binary_version_from_file reports.
VARIABLES
    versionInput,   \* PYRE_BINARY, local_path and the two configuration files
    versionResult,  \* what the call gave: raised, value
    versionPc       \* "start", "read"

\* The upgrade tool's update-global-version.
VARIABLES
    upgradeArguments,     \* hash, push_blocking_only, paths
    globalConfiguration,  \* the project's .pyre_configuration
    localConfigurations,  \* the .pyre_configuration.local files
    upgradeBefore,        \* the files as the call found them
    upgradePc             \* "start", "done"

rootVars == <<globalMarkers, localMarkers, cwd, arguments, rootRaised, rootPc>>

dirVars == <<dirArguments, dirConfiguration, dirCommand, dirIsolate,
             buckRootFound, analysisResult, dirPc>>

daemonVars == <<lockFile, alive>>

mainVars == <<pc, invocation, loadedConfiguration, analysis_directory, exit_code,
              returning, returned, raised, stateAtRun, ran, cleaned,
              nullServer, directoryRequest, interactions, previous>>

raceVars == <<racePc, raceSpawned>>

flagsVars == <<flagsInput, flagsList, flagsBefore, flagsPc>>

filterVars == <<filterArguments, filterConfiguration, filterPaths, filterPc>>

versionVars == <<versionInput, versionResult, versionPc>>

upgradeVars == <<upgradeArguments, globalConfiguration, localConfigurations,
                 upgradeBefore, upgradePc>>

vars == <<rootVars, dirVars, daemonVars, mainVars, raceVars, flagsVars,
          filterVars, versionVars, upgradeVars>>

\* What each part of the client leaves alone.
notRoot == <<dirVars, daemonVars, mainVars, raceVars, flagsVars, filterVars,
             versionVars, upgradeVars>>

notDir == <<rootVars, daemonVars, mainVars, raceVars, flagsVars, filterVars,
            versionVars, upgradeVars>>

notRace == <<rootVars, dirVars, mainVars, flagsVars, filterVars, versionVars,
             upgradeVars>>

notFlags == <<rootVars, dirVars, daemonVars, mainVars, raceVars, filterVars,
              versionVars, upgradeVars>>

notFilter == <<rootVars, dirVars, daemonVars, mainVars, raceVars, flagsVars,
               versionVars, upgradeVars>>

notUpgrade == <<rootVars, dirVars, daemonVars, mainVars, raceVars, flagsVars,
                filterVars, versionVars>>

notVersion == <<rootVars, dirVars, daemonVars, mainVars, raceVars, flagsVars,
                filterVars, upgradeVars>>

(***************************************************************************)
(* Paths.  A path is the sequence of its components; <<>> is the           *)
(* filesystem root "/".  An Optional[str] that is None is the one-element  *)
(* sequence None, which is no directory.                                   *)
(***************************************************************************)
None == <<"<None>">>

NoException == "none"

\* The directories of the modelled tree: one chain /a, /a/ab, /a/ab/a, ...
Chain == [i \in 1..MaxDepth |-> IF i % 2 = 1 THEN "a" ELSE "ab"]

Dirs == {SubSeq(Chain, 1, k) : k \in 0..MaxDepth}

NonRootDirs == Dirs \ {<<>>}

\* The characters of a directory name.
Chars(name) ==
    CASE name = "a" -> <<"a">>
      [] name = "ab" -> <<"a", "b">>
      [] name = ".pyre" -> <<".", "p", "y", "r", "e">>
      [] name = ".." -> <<".", ".">>
      [] name = "." -> <<".">>
      [] OTHER -> <<name>>

\* The string of a path, as a sequence of characters: "/" for the root,
\* "/a/ab" for <<"a", "ab">>.
RECURSIVE Render(_)
Render(path) ==
    IF path = <<>> THEN <<"/">>
    ELSE IF Len(path) = 1 THEN <<"/">> \o Chars(path[1])
    ELSE Render(SubSeq(path, 1, Len(path) - 1)) \o <<"/">> \o Chars(path[Len(path)])

\* str.startswith on rendered strings.
startswith(s, prefix) ==
    /\ Len(prefix) <= Len(s)
    /\ SubSeq(s, 1, Len(prefix)) = prefix

\* os.path.dirname: the parent; the root is its own parent.
dirname(path) == IF path = <<>> THEN <<>> ELSE SubSeq(path, 1, Len(path) - 1)

\* Component-wise ancestry (q is p or lies under p).
IsPrefix(p, q) == Len(p) <= Len(q) /\ SubSeq(q, 1, Len(p)) = p

StrictAncestor(p, q) == IsPrefix(p, q) /\ p # q

\* filesystem.find_root: walk upwards from the directory until one holding
\* the marker is found or the filesystem root is reached; None if not found.
RECURSIVE find_root(_, _)
find_root(original_directory, markers) ==
    IF original_directory = <<>> THEN None
    ELSE IF original_directory \in markers THEN original_directory
    ELSE find_root(dirname(original_directory), markers)

\* Length of the longest common prefix of two paths.
RECURSIVE CommonLen(_, _)
CommonLen(p, q) ==
    IF p = <<>> \/ q = <<>> \/ Head(p) # Head(q) THEN 0
    ELSE 1 + CommonLen(Tail(p), Tail(q))

\* os.path.relpath(path, start): ".." for every component of start below
\* the common prefix, then the rest of path; "." when the two are equal.
relpath(path, start) ==
    LET common == CommonLen(path, start)
        ups == [i \in 1..(Len(start) - common) |-> ".."]
        rest == SubSeq(path, common + 1, Len(path))
    IN IF ups \o rest = <<>> THEN <<".">> ELSE ups \o rest

\* os.path.join of a directory and a relative path.
join(directory, relative) == directory \o relative

\* The directory a path names once "." and ".." are resolved.
RECURSIVE normpath(_)
normpath(path) ==
    IF path = <<>> THEN <<>>
    ELSE LET front == normpath(SubSeq(path, 1, Len(path) - 1))
             last == path[Len(path)]
         IN IF last = "." THEN front
            ELSE IF last = ".." THEN dirname(front)
            ELSE Append(front, last)

(***************************************************************************)
(* Root resolution: switch_root and find_log_directory.                    *)
(***************************************************************************)
\* The root-resolution state of a specification that does not resolve roots.
RootParked ==
    /\ globalMarkers = {}
    /\ localMarkers = {}
    /\ cwd = <<>>
    /\ arguments = [original_directory |-> None,
                    current_directory |-> None,
                    local_configuration |-> None,
                    explicit_local_configuration |-> None,
                    log_directory |-> None]
    /\ rootRaised = NoException
    /\ rootPc = "parked"

\* The nesting check that never finds a parent local root.
parent_local_root_unchecked(local_root, locals) == None

\* switch_root lines 121-124: the local root found above the local root.
parent_local_root(local_root, locals) ==
    IF local_root # None THEN find_root(dirname(local_root), locals) ELSE None

\* The containment test with its operands exchanged.
ignore_local_exchanged(global_root, local_root) ==
    /\ global_root # None
    /\ local_root # None
    /\ startswith(Render(local_root), Render(global_root))

\* switch_root line 135: the project root is deeper than the local root.
ignore_local(global_root, local_root) ==
    /\ global_root # None
    /\ local_root # None
    /\ startswith(Render(global_root), Render(local_root))

\* switch_root: what it leaves in arguments, and what it raises.
switch_root(original_directory, local_configuration, globals, locals) ==
    LET global_root == find_root(original_directory, globals)
        root == IF global_root # None THEN global_root ELSE original_directory
        local_root == find_root(original_directory, locals)
        kept == IF ignore_local(global_root, local_root) THEN None ELSE local_root
    IN IF local_root # None /\ parent_local_root(local_root, locals) # None
       THEN [raised |-> "EnvironmentException",
             original_directory |-> original_directory,
             current_directory |-> root,
             local_configuration |-> local_configuration]
       ELSE [raised |-> NoException,
             original_directory |-> original_directory,
             current_directory |-> root,
             local_configuration |->
                 IF kept # None /\ local_configuration = None
                 THEN kept ELSE local_configuration]

\* find_log_directory: the log directory it computes (and creates).
find_log_directory(current_directory, local_configuration) ==
    LET log_directory == join(current_directory, <<".pyre">>)
    IN IF local_configuration # None
       THEN join(log_directory, relpath(local_configuration, current_directory))
       ELSE log_directory

\* The invocation starts in any directory of any tree, with or without
\* --local-configuration.
RootInit ==
    /\ globalMarkers \in SUBSET NonRootDirs
    /\ localMarkers \in SUBSET NonRootDirs
    /\ cwd \in Dirs
    /\ \E explicit \in Dirs \cup {None} :
           arguments = [original_directory |-> None,
                        current_directory |-> None,
                        local_configuration |-> explicit,
                        explicit_local_configuration |-> explicit,
                        log_directory |-> None]
    /\ rootRaised = NoException
    /\ rootPc = "start"

\* main's call of switch_root (pyre.py line 535).
SwitchRoot ==
    /\ rootPc = "start"
    /\ LET r == switch_root(cwd, arguments.local_configuration,
                            globalMarkers, localMarkers)
       IN /\ arguments' = [arguments EXCEPT
                              !.original_directory = r.original_directory,
                              !.current_directory = r.current_directory,
                              !.local_configuration = r.local_configuration]
          /\ cwd' = r.current_directory
          /\ rootRaised' = r.raised
          /\ rootPc' = IF r.raised = NoException THEN "switched" ELSE "raised"
    /\ UNCHANGED <<globalMarkers, localMarkers>>
    /\ UNCHANGED notRoot

\* main's call of find_log_directory (pyre.py line 537).
FindLogDirectory ==
    /\ rootPc = "switched"
    /\ arguments' = [arguments EXCEPT
                        !.log_directory =
                            find_log_directory(arguments.current_directory,
                                               arguments.local_configuration)]
    /\ rootPc' = "logged"
    /\ UNCHANGED <<globalMarkers, localMarkers, cwd, rootRaised>>
    /\ UNCHANGED notRoot

(***************************************************************************)
(* Analysis-directory selection: resolve_analysis_directory.               *)
(***************************************************************************)
\* The commands of pyre.py's subparsers.  rage stands for the commands
\* main treats like it (color, deobfuscate, infer, profile, statistics).
Commands == {"analyze", "check", "incremental", "initialize", "kill",
             "persistent", "query", "rage", "restart", "start", "stop"}

\* The lists a command line or a configuration can hold: the first k of
\* the named entries.  An argument list that was not given (None) is <<>>.
Entries(origin, n) == {[i \in 1..k |-> <<origin, i>>] : k \in 0..n}

\* configuration.search_path.
SearchPath == <<"path1", "path2">>

\* list.pop(): the last element, and the list without it.
Last(list) == list[Len(list)]

Front(list) == SubSeq(list, 1, Len(list) - 1)

\* The test for the pass-through directory that does not look at targets.
IsDirect_ignoring_targets(source_directories, targets) ==
    Len(source_directories) = 1

\* resolve_analysis_directory line 230.
IsDirect(source_directories, targets) ==
    Len(source_directories) = 1 /\ Len(targets) = 0

\* The sources in play where the configuration fills in the kind the
\* arguments do not give.
in_play_kind_by_kind(args, conf) ==
    [source_directories |->
         IF args.source_directories = <<>> THEN conf.source_directories
         ELSE args.source_directories,
     targets |-> IF args.targets = <<>> THEN conf.targets ELSE args.targets]

\* resolve_analysis_directory lines 196-202: the source directories and
\* targets in play.
in_play(args, conf) ==
    IF args.source_directories = <<>> /\ args.targets = <<>>
    THEN [source_directories |-> conf.source_directories,
          targets |-> conf.targets]
    ELSE [source_directories |-> args.source_directories,
          targets |-> args.targets]

\* The builder choice the arguments alone make.
use_buck_builder_of_arguments(args, configuration) ==
    args.use_buck_builder /\ ~args.use_legacy_builder

\* resolve_analysis_directory lines 226-228.
use_buck_builder(args, configuration) ==
    (args.use_buck_builder \/ configuration.use_buck_builder)
        /\ ~args.use_legacy_builder

\* The build that only the --build flag enables.
build_by_flag_only(args, command) == args.build

\* resolve_analysis_directory lines 237-241.
build(args, command) ==
    args.build \/ command \in {"analyze", "check", "restart"}

\* The builder choice that never misses a Buck root.
missing_buck_root_ignored(accelerated, buck_root) == FALSE

\* resolve_analysis_directory lines 243-246: the accelerated builder is
\* asked for and find_buck_root finds nothing.
missing_buck_root(accelerated, buck_root) == accelerated /\ ~buck_root

\* resolve_analysis_directory: the directory it returns, or the exception
\* it raises, and the configuration's source_directories afterwards.
resolve_analysis_directory(args, command, configuration, isolate, buck_root) ==
    LET from_configuration ==
            args.source_directories = <<>> /\ args.targets = <<>>
        source_directories == in_play(args, configuration).source_directories
        targets == in_play(args, configuration).targets
    IN IF IsDirect(source_directories, targets)
       THEN [kind |-> "AnalysisDirectory",
             raised |-> NoException,
             path |-> <<Last(source_directories)>>,
             source_directories |-> <<>>,
             targets |-> <<>>,
             buck_builder |-> "none",
             build |-> FALSE,
             isolate |-> FALSE,
             search_path |-> configuration.search_path,
             configuration_source_directories |->
                 IF from_configuration THEN Front(source_directories)
                 ELSE configuration.source_directories]
       ELSE IF missing_buck_root(use_buck_builder(args, configuration),
                                 buck_root)
       THEN [kind |-> "none",
             raised |-> "EnvironmentException",
             path |-> <<>>,
             source_directories |-> <<>>,
             targets |-> <<>>,
             buck_builder |-> "none",
             build |-> FALSE,
             isolate |-> FALSE,
             search_path |-> <<>>,
             configuration_source_directories |->
                 configuration.source_directories]
       ELSE [kind |-> "SharedAnalysisDirectory",
             raised |-> NoException,
             path |-> <<>>,
             source_directories |-> source_directories,
             targets |-> targets,
             buck_builder |->
                 IF use_buck_builder(args, configuration)
                 THEN "FastBuckBuilder" ELSE "SimpleBuckBuilder",
             build |->
                 IF use_buck_builder(args, configuration)
                 THEN FALSE ELSE build(args, command),
             isolate |-> isolate,
             search_path |-> configuration.search_path,
             configuration_source_directories |->
                 configuration.source_directories]

\* No analysis directory yet (analysis_directory = None, pyre.py line 523).
NoDirectory ==
    [kind |-> "none",
     raised |-> NoException,
     path |-> <<>>,
     source_directories |-> <<>>,
     targets |-> <<>>,
     buck_builder |-> "none",
     build |-> FALSE,
     isolate |-> FALSE,
     search_path |-> <<>>,
     configuration_source_directories |-> <<>>]

\* The arguments resolve_analysis_directory reads.
DirectoryArguments ==
    [source_directories : Entries("--source-directory", MaxSources),
     targets : Entries("--target", MaxTargets),
     build : BOOLEAN,
     use_buck_builder : BOOLEAN,
     use_legacy_builder : BOOLEAN]

\* The configurations resolve_analysis_directory reads.
DirectoryConfigurations ==
    [source_directories : Entries("source_directories", MaxSources),
     targets : Entries("targets", MaxTargets),
     use_buck_builder : BOOLEAN,
     search_path : {SearchPath}]

\* The selection state of a specification that selects no directory.
DirParked ==
    /\ dirArguments = [source_directories |-> <<>>, targets |-> <<>>,
                       build |-> FALSE, use_buck_builder |-> FALSE,
                       use_legacy_builder |-> FALSE]
    /\ dirConfiguration = [source_directories |-> <<>>, targets |-> <<>>,
                           use_buck_builder |-> FALSE,
                           search_path |-> SearchPath]
    /\ dirCommand = "check"
    /\ dirIsolate = FALSE
    /\ buckRootFound = FALSE
    /\ analysisResult = NoDirectory
    /\ dirPc = "parked"

\* Any arguments, any configuration, any command.
DirInit ==
    /\ dirArguments \in DirectoryArguments
    /\ dirConfiguration \in DirectoryConfigurations
    /\ dirCommand \in Commands
    /\ dirIsolate \in BOOLEAN
    /\ buckRootFound \in BOOLEAN
    /\ analysisResult = NoDirectory
    /\ dirPc = "start"

\* A call of resolve_analysis_directory (pyre.py lines 577-579).
\* dirConfiguration stays the configuration as it was given; what the call
\* left in it is analysisResult.configuration_source_directories.
ResolveAnalysisDirectory ==
    /\ dirPc = "start"
    /\ analysisResult' =
           resolve_analysis_directory(dirArguments, dirCommand,
                                      dirConfiguration, dirIsolate,
                                      buckRootFound)
    /\ dirPc' = "resolved"
    /\ UNCHANGED <<dirArguments, dirConfiguration, dirCommand, dirIsolate,
                   buckRootFound>>
    /\ UNCHANGED notDir

(***************************************************************************)
(* The daemon: the lock file, the liveness probe and the commands'         *)
(* effects on the daemon (commands/command.py, start.py, stop.py, kill.py, *)
(* restart.py, incremental.py, query.py, check.py).                        *)
(***************************************************************************)
\* The process ids a daemon can get: 1, 12, 23, ...
Pids == {1 + 11 * (i - 1) : i \in 1..MaxPid}

DigitChars == <<"0", "1", "2", "3", "4", "5", "6", "7", "8", "9">>

\* str(pid): the decimal digits of a process id.
RECURSIVE str(_)
str(n) ==
    IF n < 10 THEN <<DigitChars[n + 1]>>
    ELSE Append(str(n \div 10), DigitChars[(n % 10) + 1])

\* int(text) raises ValueError unless the text is a decimal number.
IsNumeric(text) ==
    /\ text # <<>>
    /\ \A i \in 1..Len(text) : \E d \in 1..10 : DigitChars[d] = text[i]

DigitValue(char) == (CHOOSE d \in 1..10 : DigitChars[d] = char) - 1

\* int(text) of a decimal number.
RECURSIVE int(_)
int(text) ==
    IF Len(text) = 1 THEN DigitValue(text[1])
    ELSE 10 * int(SubSeq(text, 1, Len(text) - 1)) + DigitValue(text[Len(text)])

\* A lock file that holds no process id (the test's "derp").
Garbage == <<"d", "e", "r", "p">>

\* What the lock file can hold.
LockContents == {None, Garbage} \cup {str(p) : p \in Pids}

\* The liveness probe that trusts the lock file without probing the process.
state_without_probe(lock, processes) ==
    IF lock = None THEN "DEAD"
    ELSE IF ~IsNumeric(lock) THEN "DEAD"
    ELSE "RUNNING"

\* Command._state: open the lock file, int() its content, os.kill(pid, 0);
\* any exception (no file, no number, no such process) is DEAD.
state(lock, processes) ==
    IF lock = None THEN "DEAD"
    ELSE IF ~IsNumeric(lock) THEN "DEAD"
    ELSE IF int(lock) \notin processes THEN "DEAD"
    ELSE "RUNNING"

State == state(lockFile, alive)

\* start: spawn the daemon and record its pid in the lock file.
start(lock, processes, pid) ==
    [lockFile |-> str(pid), alive |-> processes \cup {pid}]

\* The stop that leaves the daemon running.
stop_nothing(lock, processes) == [lockFile |-> lock, alive |-> processes]

\* stop: graceful shutdown of the running daemon, then the lock file is
\* removed; nothing to stop when the daemon is DEAD.
stop(lock, processes) ==
    IF state(lock, processes) = "RUNNING"
    THEN [lockFile |-> None, alive |-> processes \ {int(lock)}]
    ELSE [lockFile |-> lock, alive |-> processes]

\* The kill that removes the lock file of a running daemon only.
kill_running_only(lock, processes) ==
    IF state(lock, processes) = "RUNNING"
    THEN [lockFile |-> None, alive |-> processes \ {int(lock)}]
    ELSE [lockFile |-> lock, alive |-> processes]

\* kill: forceful termination of the recorded process; the lock file is
\* removed unconditionally.
kill(lock, processes) ==
    [lockFile |-> None,
     alive |-> IF lock # None /\ IsNumeric(lock)
               THEN processes \ {int(lock)} ELSE processes]

\* The restart whose stop step fails when there is no daemon to stop.
restart_stop_fails_when_dead(session) == session = "RUNNING"

\* restart: the stop step succeeds whether or not a daemon was running.
restart_stop_succeeds(session) == TRUE

\* The incremental that never starts a daemon.
incremental_never_starts(session) == FALSE

\* incremental: performs start first when no daemon exists.
incremental_starts(session) == session = "DEAD"

\* The exit codes.
SUCCESS == "SUCCESS"

FAILURE == "FAILURE"

BUCK_ERROR == "BUCK_ERROR"

ExitCode == {SUCCESS, FAILURE, BUCK_ERROR}

\* The exit codes a command's run().exit_code() gives.
CommandExitCodes == {SUCCESS, FAILURE}

\* The daemon state of a specification without a daemon.
DaemonParked ==
    /\ lockFile = None
    /\ alive = {}

\* Any state the previous invocations and the daemon may have left: no
\* lock file, a corrupt one, a stale pid or the pid of a live daemon; at
\* most one daemon process is alive.
DaemonInit ==
    /\ lockFile \in LockContents
    /\ alive \in {processes \in SUBSET Pids : Cardinality(processes) <= 1}

(***************************************************************************)
(* main() of pyre.py.                                                      *)
(***************************************************************************)
NoCommand == "none"

NoConfiguration == [loaded |-> FALSE, disabled |-> FALSE, logger |-> FALSE]

\* What main keeps of an analysis directory.
Directory(kind, buck_builder, build_flag, isolate) ==
    [kind |-> kind, buck_builder |-> buck_builder, build |-> build_flag,
     isolate |-> isolate]

NoAnalysisDirectory == Directory("none", "none", FALSE, FALSE)

\* AnalysisDirectory(".") of lines 541 and 571.
CurrentDirectory == Directory("AnalysisDirectory", "none", FALSE, FALSE)

Exceptions == {"BuckException", "EnvironmentException", "ClientException",
               "Exception", "KeyboardInterrupt"}

\* The handlers with the build-tool error in the generic class.
exit_code_buck_as_failure(exception) ==
    IF exception = "KeyboardInterrupt" THEN SUCCESS ELSE FAILURE

\* The handlers without the clause of lines 602-605: an interruption keeps
\* the exit code main starts with.
exit_code_interrupt_keeps_initial(exception) ==
    IF exception = "BuckException" THEN BUCK_ERROR ELSE FAILURE

\* The handlers without the catch-all of lines 598-601: an uncategorized
\* exception leaves main without an exit code.
exit_code_without_catch_all(exception) ==
    CASE exception = "BuckException" -> BUCK_ERROR
      [] exception = "EnvironmentException" -> FAILURE
      [] exception = "ClientException" -> FAILURE
      [] exception = "Exception" -> "uncaught"
      [] exception = "KeyboardInterrupt" -> SUCCESS

\* The exit code main's handlers set (lines 585-605).
exit_code_for(exception) ==
    CASE exception = "BuckException" -> BUCK_ERROR
      [] exception = "EnvironmentException" -> FAILURE
      [] exception = "ClientException" -> FAILURE
      [] exception = "Exception" -> FAILURE
      [] exception = "KeyboardInterrupt" -> SUCCESS

\* The default that does not look for watchman.
resolved_command_without_watchman(given, watchman) ==
    IF given = NoCommand THEN "check" ELSE given

\* The command main runs (lines 504-520).
resolved_command(given, watchman) ==
    IF given = NoCommand
    THEN IF watchman THEN "incremental" ELSE "check"
    ELSE given

\* --incremental-style of incremental, start and restart (lines 277-283,
\* 365-371, 396-402).
IncrementalStyle == {"SHALLOW", "TRANSITIVE", "FINE_GRAINED"}

NoStyle == "none"

\* The styles the parser can give the command named.
ParsedStyles(given) ==
    IF given \in {"incremental", "start", "restart"}
    THEN IncrementalStyle ELSE {NoStyle}

\* --nonblocking, of incremental only (lines 269-276).
ParsedNonblocking(given) ==
    IF given = "incremental" THEN BOOLEAN ELSE {FALSE}

\* shutil.which("watchman") of line 505, called when no command is named.
WatchmanFound(given) ==
    IF given = NoCommand THEN BOOLEAN ELSE {FALSE}

\* Lines 504-520: the arguments after the default command is chosen; the
\* default incremental is blocking and shallow.
with_default_command(given, watchman, version, nonblocking, style) ==
    LET defaulted == given = NoCommand /\ watchman
    IN [given |-> given,
        watchman |-> watchman,
        command |-> resolved_command(given, watchman),
        version |-> version,
        nonblocking |-> IF defaulted THEN FALSE ELSE nonblocking,
        incremental_style |-> IF defaulted THEN "SHALLOW" ELSE style]

\* No invocation yet.
NoInvocation ==
    [given |-> NoCommand, watchman |-> FALSE, command |-> NoCommand,
     version |-> FALSE, nonblocking |-> FALSE, incremental_style |-> NoStyle]

\* The exceptions that can reach main's handlers from each place of the
\* try block: an interruption or an uncategorized error anywhere, an
\* EnvironmentException from Configuration(), and from the command's run()
\* a build failure (before any daemon contact), an environment error or a
\* client error.
Raisable(at, directory) ==
    CASE at = "try" -> {"KeyboardInterrupt", "Exception"}
      [] at = "dispatch" ->
            {"KeyboardInterrupt", "Exception", "EnvironmentException"}
      [] at = "configured" -> {"KeyboardInterrupt", "Exception"}
      [] at = "run" ->
            {"KeyboardInterrupt", "Exception", "EnvironmentException",
             "ClientException"}
            \cup (IF directory.kind = "SharedAnalysisDirectory"
                  THEN {"BuckException"} ELSE {})
      [] at = "restart_start" ->
            {"KeyboardInterrupt", "Exception", "EnvironmentException",
             "ClientException"}
      [] OTHER -> {}

\* Nothing was asked of resolve_analysis_directory.
NoRequest ==
    [resolved |-> FALSE, accelerated |-> FALSE, buck_root |-> FALSE,
     direct |-> FALSE, use_global_shared_analysis_directory |-> FALSE]

\* How an invocation ended, as the next one finds it: a restart that an
\* exception left between its stop and its start, or anything else.
ended(at, command, exception, state_at_run) ==
    IF /\ at = "done"
       /\ command = "restart"
       /\ exception # NoException
       /\ state_at_run # "none"
    THEN "restart_crashed" ELSE "none"

MainParked ==
    /\ pc = "parked"
    /\ invocation = NoInvocation
    /\ loadedConfiguration = NoConfiguration
    /\ analysis_directory = NoAnalysisDirectory
    /\ exit_code = FAILURE
    /\ returning = "none"
    /\ returned = "none"
    /\ raised = NoException
    /\ stateAtRun = "none"
    /\ ran = FALSE
    /\ cleaned = FALSE
    /\ nullServer = FALSE
    /\ directoryRequest = NoRequest
    /\ interactions = 0
    /\ previous = "none"

MainInit ==
    /\ pc = "idle"
    /\ invocation = NoInvocation
    /\ loadedConfiguration = NoConfiguration
    /\ analysis_directory = NoAnalysisDirectory
    /\ exit_code = FAILURE
    /\ returning = "none"
    /\ returned = "none"
    /\ raised = NoException
    /\ stateAtRun = "none"
    /\ ran = FALSE
    /\ cleaned = FALSE
    /\ nullServer = FALSE
    /\ directoryRequest = NoRequest
    /\ interactions = 0
    /\ previous = "none"

notMain == <<rootVars, dirVars, raceVars, flagsVars, filterVars, versionVars,
             upgradeVars>>

\* Lines 502-527: the arguments are parsed, the default command is chosen
\* and the locals are initialised.
MainBegin ==
    /\ pc = "idle"
    /\ \E given \in Commands \cup {NoCommand}, version \in BOOLEAN :
           \E watchman \in WatchmanFound(given),
              nonblocking \in ParsedNonblocking(given),
              style \in ParsedStyles(given) :
               invocation' = with_default_command(given, watchman, version,
                                                  nonblocking, style)
    /\ loadedConfiguration' = NoConfiguration
    /\ analysis_directory' = NoAnalysisDirectory
    /\ exit_code' = FAILURE
    /\ returning' = "none"
    /\ returned' = "none"
    /\ raised' = NoException
    /\ stateAtRun' = "none"
    /\ ran' = FALSE
    /\ cleaned' = FALSE
    /\ nullServer' = FALSE
    /\ directoryRequest' = NoRequest
    /\ interactions' = 0
    /\ pc' = "try"
    /\ UNCHANGED <<daemonVars, previous, notMain>>

\* What switch_root can raise, from any starting directory of any tree.
SwitchRootOutcomes ==
    {switch_root(start_directory, explicit, globals, locals).raised :
        start_directory \in Dirs, explicit \in Dirs \cup {None},
        globals \in SUBSET NonRootDirs, locals \in SUBSET NonRootDirs}

\* Lines 535-538: switch_root, translate_arguments, find_log_directory,
\* log.initialize.
MainSwitchRoot ==
    /\ pc = "try"
    /\ \E outcome \in SwitchRootOutcomes :
           /\ raised' = outcome
           /\ pc' = IF outcome = NoException THEN "dispatch" ELSE "except"
    /\ UNCHANGED <<invocation, loadedConfiguration, analysis_directory, exit_code,
                   returning, returned, stateAtRun, ran, cleaned, nullServer>>
    /\ UNCHANGED <<daemonVars, directoryRequest, interactions, previous, notMain>>

\* An exception raised inside the try block.
MainRaise ==
    /\ \E exception \in Raisable(pc, analysis_directory) :
           raised' = exception
    /\ pc' = "except"
    /\ UNCHANGED <<invocation, loadedConfiguration, analysis_directory, exit_code,
                   returning, returned, stateAtRun, ran, cleaned, nullServer>>
    /\ UNCHANGED <<daemonVars, directoryRequest, interactions, previous, notMain>>

\* Lines 540-541: initialize works on the current directory.
MainInitialize ==
    /\ pc = "dispatch"
    /\ invocation.command = "initialize"
    /\ analysis_directory' = CurrentDirectory
    /\ pc' = "run"
    /\ UNCHANGED <<invocation, loadedConfiguration, exit_code, returning, returned,
                   raised, stateAtRun, ran, cleaned, nullServer>>
    /\ UNCHANGED <<daemonVars, directoryRequest, interactions, previous, notMain>>

\* Lines 543-552: --version prints the versions and returns SUCCESS.
MainVersion ==
    /\ pc = "dispatch"
    /\ invocation.command # "initialize"
    /\ invocation.version
    /\ returning' = SUCCESS
    /\ pc' = "finally"
    /\ UNCHANGED <<invocation, loadedConfiguration, analysis_directory, exit_code,
                   returned, raised, stateAtRun, ran, cleaned, nullServer>>
    /\ UNCHANGED <<daemonVars, directoryRequest, interactions, previous, notMain>>

\* Line 564 without its test: a disabled configuration goes on.
returns_early_never(configuration) == FALSE

\* Lines 564-568: if configuration.disabled: return ExitCode.SUCCESS.
returns_early(configuration) == configuration.disabled

\* Lines 553-568: the Configuration is loaded; a disabled one returns
\* SUCCESS.
MainConfiguration ==
    /\ pc = "dispatch"
    /\ invocation.command # "initialize"
    /\ ~invocation.version
    /\ \E disabled \in BOOLEAN, logger \in BOOLEAN :
           /\ loadedConfiguration' = [loaded |-> TRUE, disabled |-> disabled,
                                logger |-> logger]
           /\ returning' = IF returns_early(loadedConfiguration')
                            THEN SUCCESS ELSE returning
           /\ pc' = IF returns_early(loadedConfiguration')
                     THEN "finally" ELSE "configured"
    /\ UNCHANGED <<invocation, analysis_directory, exit_code, returned,
                   raised, stateAtRun, ran, cleaned, nullServer>>
    /\ UNCHANGED <<daemonVars, directoryRequest, interactions, previous, notMain>>

\* Line 570 without its test: no command is given the current directory.
uses_current_directory_never(command) == FALSE

\* Line 570: arguments.command in [commands.Kill].
uses_current_directory(command) == command = "kill"

\* What the arguments, the configuration and the working directory ask of
\* the analysis directory: the accelerated builder, a Buck root above the
\* working directory, exactly one source directory and no target, and
\* --use-global-shared-analysis-directory as line 575 read it.
Request(args, conf, buck_root, resolved, use_global) ==
    [resolved |-> resolved,
     use_global_shared_analysis_directory |-> use_global,
     accelerated |-> use_buck_builder(args, conf),
     buck_root |-> buck_root,
     direct |-> /\ Len(in_play(args, conf).source_directories) = 1
                /\ Len(in_play(args, conf).targets) = 0]

\* The same for kill, which resolves nothing.
KillRequests ==
    {Request(args, conf, buck_root, FALSE, FALSE) :
        args \in DirectoryArguments, conf \in DirectoryConfigurations,
        buck_root \in BOOLEAN}

\* Lines 570-571: kill works on the current directory, whatever source
\* directories, targets and builder flags are given.
MainKillDirectory ==
    /\ pc = "configured"
    /\ uses_current_directory(invocation.command)
    /\ directoryRequest' \in KillRequests
    /\ analysis_directory' = CurrentDirectory
    /\ pc' = "run"
    /\ UNCHANGED <<invocation, loadedConfiguration, exit_code, returning, returned,
                   raised, stateAtRun, ran, cleaned, nullServer>>
    /\ UNCHANGED <<daemonVars, interactions, previous, notMain>>

\* Lines 573-576 with every command a one-shot one.
isolate_of_any_command(command, use_global_shared_analysis_directory) ==
    ~use_global_shared_analysis_directory

\* Lines 573-576: isolate = arguments.command in [Analyze, Check] and not
\* arguments.use_global_shared_analysis_directory.
isolate(command, use_global_shared_analysis_directory) ==
    /\ command \in {"analyze", "check"}
    /\ ~use_global_shared_analysis_directory

\* Lines 572-578: what resolve_analysis_directory gives each command, for
\* any arguments and configuration: an exception or a directory.
DirectoryOutcomes ==
    {LET r == resolve_analysis_directory(
                  args, command, conf,
                  isolate(command, use_global_shared_analysis_directory),
                  buck_root)
     IN [command |-> command,
         request |-> Request(args, conf, buck_root, TRUE,
                             use_global_shared_analysis_directory),
         raised |-> r.raised,
         directory |-> Directory(r.kind, r.buck_builder, r.build, r.isolate)] :
        args \in DirectoryArguments, conf \in DirectoryConfigurations,
        buck_root \in BOOLEAN,
        use_global_shared_analysis_directory \in BOOLEAN,
        command \in Commands}

\* Lines 572-579: every other command resolves its analysis directory.
MainResolveDirectory ==
    /\ pc = "configured"
    /\ ~uses_current_directory(invocation.command)
    /\ \E outcome \in DirectoryOutcomes :
           /\ outcome.command = invocation.command
           /\ directoryRequest' = outcome.request
           /\ raised' = outcome.raised
           /\ analysis_directory' =
                  IF outcome.raised = NoException
                  THEN outcome.directory ELSE analysis_directory
           /\ pc' = IF outcome.raised = NoException THEN "run" ELSE "except"
    /\ UNCHANGED <<invocation, loadedConfiguration, exit_code, returning, returned,
                   stateAtRun, ran, cleaned, nullServer>>
    /\ UNCHANGED <<daemonVars, interactions, previous, notMain>>

(***************************************************************************)
(* Lines 581-584: command(arguments, configuration,                        *)
(* analysis_directory).run().exit_code(), command by command.              *)
(***************************************************************************)
mainFrame == <<invocation, loadedConfiguration, analysis_directory, returning,
               returned, cleaned, nullServer, directoryRequest>>

\* start: a dead daemon is spawned; a running one is left alone, and the
\* invocation no-ops or fails.
RunStart ==
    /\ pc = "run"
    /\ invocation.command = "start"
    /\ stateAtRun' = State
    /\ IF State = "DEAD"
       THEN \E pid \in Pids \ alive :
                /\ lockFile' = start(lockFile, alive, pid).lockFile
                /\ alive' = start(lockFile, alive, pid).alive
                /\ exit_code' = SUCCESS
       ELSE /\ UNCHANGED daemonVars
            /\ exit_code' \in CommandExitCodes
    /\ ran' = TRUE
    /\ pc' = "finally"
    /\ interactions' = interactions + 1
    /\ UNCHANGED <<mainFrame, raised, previous, notMain>>

\* stop: graceful shutdown of a running daemon.
RunStop ==
    /\ pc = "run"
    /\ invocation.command = "stop"
    /\ stateAtRun' = State
    /\ lockFile' = stop(lockFile, alive).lockFile
    /\ alive' = stop(lockFile, alive).alive
    /\ IF State = "RUNNING" THEN exit_code' = SUCCESS
       ELSE exit_code' \in CommandExitCodes
    /\ ran' = TRUE
    /\ pc' = "finally"
    /\ interactions' = interactions + 1
    /\ UNCHANGED <<mainFrame, raised, previous, notMain>>

\* kill.
RunKill ==
    /\ pc = "run"
    /\ invocation.command = "kill"
    /\ stateAtRun' = State
    /\ lockFile' = kill(lockFile, alive).lockFile
    /\ alive' = kill(lockFile, alive).alive
    /\ exit_code' = SUCCESS
    /\ ran' = TRUE
    /\ pc' = "finally"
    /\ interactions' = interactions + 1
    /\ UNCHANGED <<mainFrame, raised, previous, notMain>>

\* restart, first step: stop.
RunRestartStop ==
    /\ pc = "run"
    /\ invocation.command = "restart"
    /\ stateAtRun' = State
    /\ IF restart_stop_succeeds(State)
       THEN /\ lockFile' = stop(lockFile, alive).lockFile
            /\ alive' = stop(lockFile, alive).alive
            /\ pc' = "restart_start"
            /\ UNCHANGED <<exit_code, ran>>
       ELSE /\ exit_code' = FAILURE
            /\ ran' = TRUE
            /\ pc' = "finally"
            /\ UNCHANGED daemonVars
    /\ interactions' = interactions + 1
    /\ UNCHANGED <<mainFrame, raised, previous, notMain>>

\* The restart that ends after its stop.
RunRestartStart_skipped ==
    /\ pc = "restart_start"
    /\ exit_code' = SUCCESS
    /\ ran' = TRUE
    /\ pc' = "finally"
    /\ UNCHANGED <<mainFrame, raised, stateAtRun, interactions, daemonVars,
                   previous, notMain>>

\* restart, second step: start.
RunRestartStart ==
    /\ pc = "restart_start"
    /\ IF State = "DEAD"
       THEN \E pid \in Pids \ alive :
                /\ lockFile' = start(lockFile, alive, pid).lockFile
                /\ alive' = start(lockFile, alive, pid).alive
       ELSE UNCHANGED daemonVars
    /\ exit_code' = SUCCESS
    /\ ran' = TRUE
    /\ pc' = "finally"
    /\ interactions' = interactions + 1
    /\ UNCHANGED <<mainFrame, raised, stateAtRun, previous, notMain>>

\* incremental: starts the daemon if there is none, then asks it.
RunIncremental ==
    /\ pc = "run"
    /\ invocation.command = "incremental"
    /\ stateAtRun' = State
    /\ IF incremental_starts(State)
       THEN \E pid \in Pids \ alive :
                /\ lockFile' = start(lockFile, alive, pid).lockFile
                /\ alive' = start(lockFile, alive, pid).alive
       ELSE UNCHANGED daemonVars
    /\ exit_code' \in CommandExitCodes
    /\ ran' = TRUE
    /\ pc' = "finally"
    /\ interactions' = interactions + 1
    /\ UNCHANGED <<mainFrame, raised, previous, notMain>>

\* check and analyze: one-shot, no daemon is started or contacted.
RunCheck ==
    /\ pc = "run"
    /\ invocation.command \in {"check", "analyze"}
    /\ stateAtRun' = State
    /\ exit_code' \in CommandExitCodes
    /\ ran' = TRUE
    /\ pc' = "finally"
    /\ UNCHANGED interactions
    /\ UNCHANGED <<mainFrame, raised, daemonVars, previous, notMain>>

\* query: an error against a dead daemon.
RunQuery ==
    /\ pc = "run"
    /\ invocation.command = "query"
    /\ stateAtRun' = State
    /\ IF State = "DEAD"
       THEN /\ raised' = "ClientException"
            /\ pc' = "except"
            /\ UNCHANGED <<exit_code, ran>>
       ELSE /\ exit_code' = SUCCESS
            /\ ran' = TRUE
            /\ pc' = "finally"
            /\ UNCHANGED raised
    /\ interactions' = interactions + 1
    /\ UNCHANGED <<mainFrame, daemonVars, previous, notMain>>

\* initialize, persistent, rage and the like: no daemon transition.
RunOther ==
    /\ pc = "run"
    /\ invocation.command \in {"initialize", "persistent", "rage"}
    /\ stateAtRun' = State
    /\ exit_code' \in CommandExitCodes
    /\ ran' = TRUE
    /\ pc' = "finally"
    /\ UNCHANGED interactions
    /\ UNCHANGED <<mainFrame, raised, daemonVars, previous, notMain>>

\* Lines 588 and 593 without their effect: no handler starts the no-op
\* responder.
runs_null_server_never(exception, command) == FALSE

\* Lines 588-589 and 593-594: the handlers of BuckException and of
\* EnvironmentException run Persistent.run_null_server when
\* arguments.command == commands.Persistent.
runs_null_server(exception, command) ==
    /\ exception \in {"BuckException", "EnvironmentException"}
    /\ command = "persistent"

\* Lines 585-605: the exception handlers.
MainExcept ==
    /\ pc = "except"
    /\ exit_code' = exit_code_for(raised)
    /\ nullServer' = runs_null_server(raised, invocation.command)
    /\ pc' = "finally"
    /\ UNCHANGED <<invocation, loadedConfiguration, analysis_directory, returning,
                   returned, raised, stateAtRun, ran, cleaned>>
    /\ UNCHANGED <<daemonVars, directoryRequest, interactions, previous, notMain>>

\* The cleanup that an exception in flight skips.
cleans_unless_raised(directory, exception) ==
    directory.kind # "none" /\ exception = NoException

\* Lines 608-609: if analysis_directory: analysis_directory.cleanup().
cleans(directory, exception) == directory.kind # "none"

\* Lines 606-622: the finally block, then the return.
MainFinally ==
    /\ pc = "finally"
    /\ cleaned' = cleans(analysis_directory, raised)
    /\ returned' = IF returning # "none" THEN returning ELSE exit_code
    /\ pc' = "done"
    /\ UNCHANGED <<invocation, loadedConfiguration, analysis_directory, exit_code,
                   returning, raised, stateAtRun, ran, nullServer>>
    /\ UNCHANGED <<daemonVars, directoryRequest, interactions, previous, notMain>>

\* The process exits with what main returned; the next invocation finds
\* the daemon as this one left it.
MainExit ==
    /\ pc = "done"
    /\ previous' = ended(pc, invocation.command, raised, stateAtRun)
    /\ invocation' = NoInvocation
    /\ loadedConfiguration' = NoConfiguration
    /\ analysis_directory' = NoAnalysisDirectory
    /\ exit_code' = FAILURE
    /\ returning' = "none"
    /\ returned' = "none"
    /\ raised' = NoException
    /\ stateAtRun' = "none"
    /\ ran' = FALSE
    /\ cleaned' = FALSE
    /\ nullServer' = FALSE
    /\ directoryRequest' = NoRequest
    /\ interactions' = 0
    /\ pc' = "idle"
    /\ UNCHANGED <<daemonVars, notMain>>

(***************************************************************************)
(* Start invocations that run at the same time: each probes the daemon     *)
(* with _state and, finding it DEAD, spawns one and records its pid.       *)
(***************************************************************************)
Starters == 1..MaxStarters

RaceParked ==
    /\ racePc = [i \in Starters |-> "parked"]
    /\ raceSpawned = 0

\* The process ids the racing invocations' daemons can get.
RacePids == {1 + 11 * (i - 1) : i \in 1..MaxStarters}

\* Before the invocations: no lock file, a corrupt one, a stale pid, or the
\* pid of the one daemon that runs.
RaceInit ==
    /\ racePc = [i \in Starters |-> "probe"]
    /\ raceSpawned = 0
    /\ lockFile \in LockContents
    /\ alive \in {{}} \cup (IF IsNumeric(lockFile)
                            THEN {{int(lockFile)}} ELSE {})

\* The liveness probe of start.
RaceProbe(i) ==
    /\ racePc[i] = "probe"
    /\ racePc' = [racePc EXCEPT ![i] =
                     IF state(lockFile, alive) = "DEAD" THEN "spawn" ELSE "done"]
    /\ UNCHANGED <<raceSpawned, daemonVars, notRace>>

\* The spawn of start, and the record of the pid.
RaceSpawn(i) ==
    /\ racePc[i] = "spawn"
    /\ \E pid \in RacePids \ alive :
           /\ lockFile' = start(lockFile, alive, pid).lockFile
           /\ alive' = start(lockFile, alive, pid).alive
    /\ raceSpawned' = raceSpawned + 1
    /\ racePc' = [racePc EXCEPT ![i] = "done"]
    /\ UNCHANGED notRace

(***************************************************************************)
(* Command._flags (commands/command.py), as test_logger shows it.          *)
(***************************************************************************)
\* configuration.logger = None.
NoLogger == "None"

Loggers == {"/foo/bar", "/var/log/pyre", "logger", "/a/logger"}

ProjectRoots == {".", "/a", "/a/ab", "/project"}

\* The logging sections of a command, in the order it lists them.
LoggingSections ==
    {<<"parser">>, <<"parser", "server">>,
     <<"environment", "parser", "server">>}

\* ",".join(sections).
RECURSIVE join_sections(_)
join_sections(sections) ==
    IF Len(sections) = 1 THEN sections[1]
    ELSE sections[1] \o "," \o join_sections(Tail(sections))

\* The flag list with the logger entries put first.
flags_logger_first(sections, project_root, logger) ==
    (IF logger # NoLogger THEN <<"-logger", logger>> ELSE <<>>)
        \o <<"-logging-sections", join_sections(sections),
             "-project-root", project_root>>

\* Command._flags: the logging sections, the project root, then the logger
\* when the configuration has one.
flags(sections, project_root, logger) ==
    <<"-logging-sections", join_sections(sections),
      "-project-root", project_root>>
        \o (IF logger # NoLogger THEN <<"-logger", logger>> ELSE <<>>)

FlagsParked ==
    /\ flagsInput = [sections |-> <<"parser">>, project_root |-> ".",
                     logger |-> NoLogger]
    /\ flagsList = <<>>
    /\ flagsBefore = <<>>
    /\ flagsPc = "parked"

\* A command is made with any logging sections, root and logger.
FlagsInit ==
    /\ flagsInput \in [sections : LoggingSections,
                        project_root : ProjectRoots,
                        logger : Loggers \cup {NoLogger}]
    /\ flagsList = <<>>
    /\ flagsBefore = <<>>
    /\ flagsPc = "made"

\* test_command._flags().
BuildFlags ==
    /\ flagsPc \in {"made", "logger_set"}
    /\ flagsList' = flags(flagsInput.sections, flagsInput.project_root,
                          flagsInput.logger)
    /\ flagsPc' = IF flagsPc = "made" THEN "built" ELSE "rebuilt"
    /\ UNCHANGED <<flagsInput, flagsBefore, notFlags>>

\* configuration.logger = "/foo/bar", and the command is made again
\* (test_logger lines 145-146).
SetLogger ==
    /\ flagsPc = "built"
    /\ flagsInput.logger = NoLogger
    /\ \E logger \in Loggers :
           flagsInput' = [flagsInput EXCEPT !.logger = logger]
    /\ flagsBefore' = flagsList
    /\ flagsPc' = "logger_set"
    /\ UNCHANGED <<flagsList, notFlags>>

(***************************************************************************)
(* The filter paths: resolve_analysis_directory lines 215-218 and          *)
(* _resolve_filter_paths. A path is the sequence of its components, an     *)
(* absolute one starting with "/".                                         *)
(***************************************************************************)
isabs(path) == path # <<>> /\ path[1] = "/"

\* filesystem.translate_path: a relative path is taken from the root.
translate_path(root, path) == IF isabs(path) THEN path ELSE root \o path

\* filesystem.translate_paths, path by path.
translate_paths(paths, original_directory) ==
    [i \in 1..Len(paths) |-> translate_path(original_directory, paths[i])]

\* buck.presumed_target_root: the directory of the target //root:name.
presumed_target_root(target) == target.root

\* _resolve_filter_paths (lines 177-190).
resolve_filter_paths(args, configuration) ==
    LET filter_paths ==
            IF args.source_directories # <<>> \/ args.targets # <<>>
            THEN args.source_directories
                     \o [i \in 1..Len(args.targets) |->
                            presumed_target_root(args.targets[i])]
            ELSE IF configuration.local_configuration_root # None
            THEN <<configuration.local_configuration_root>>
            ELSE <<>>
    IN translate_paths(filter_paths, args.original_directory)

\* The filter paths that leave the targets out.
filter_paths_of_sources(args, configuration) ==
    IF args.filter_directory # None THEN <<args.filter_directory>>
    ELSE translate_paths(
             IF args.source_directories # <<>> \/ args.targets # <<>>
             THEN args.source_directories
             ELSE IF configuration.local_configuration_root # None
             THEN <<configuration.local_configuration_root>>
             ELSE <<>>,
             args.original_directory)

\* resolve_analysis_directory lines 215-218.
filter_paths(args, configuration) ==
    IF args.filter_directory # None THEN <<args.filter_directory>>
    ELSE resolve_filter_paths(args, configuration)

\* --source-directory lists, relative and absolute.
FilterSources ==
    {<<>>, <<<<"x">>>>, <<<<"x">>, <<"y", "z">>>>, <<<<"/", "p">>>>}

\* --target lists: //t:all, //t/u:lib.
FilterTargets ==
    {<<>>, <<[root |-> <<"t">>, name |-> "all"]>>,
     <<[root |-> <<"t">>, name |-> "all"],
       [root |-> <<"t", "u">>, name |-> "lib"]>>}

FilterArguments ==
    [source_directories : FilterSources,
     targets : FilterTargets,
     filter_directory : {None, <<"f">>},
     original_directory : {<<"/", "a">>, <<"/", "a", "ab">>}]

FilterConfigurations ==
    [local_configuration_root : {None, <<"/", "a", "ab">>, <<"local">>}]

FilterParked ==
    /\ filterArguments = [source_directories |-> <<>>, targets |-> <<>>,
                          filter_directory |-> None,
                          original_directory |-> <<"/", "a">>]
    /\ filterConfiguration = [local_configuration_root |-> None]
    /\ filterPaths = <<>>
    /\ filterPc = "parked"

FilterInit ==
    /\ filterArguments \in FilterArguments
    /\ filterConfiguration \in FilterConfigurations
    /\ filterPaths = <<>>
    /\ filterPc = "start"

\* Lines 215-218 of resolve_analysis_directory.
ResolveFilterPaths ==
    /\ filterPc = "start"
    /\ filterPaths' = filter_paths(filterArguments, filterConfiguration)
    /\ filterPc' = "resolved"
    /\ UNCHANGED <<filterArguments, filterConfiguration, notFilter>>

(***************************************************************************)
(* get_binary_version_from_file (src/client/__init__.py, lines 82-107).    *)
(***************************************************************************)
\* No version: the "version" key is absent.
NoVersion == "<None>"

\* A configuration file: missing, not a JSON object, or a JSON object with
\* or without a "version", which may be the empty string.
ConfigurationFiles ==
    {[kind |-> "missing", version |-> NoVersion],
     [kind |-> "invalid", version |-> NoVersion]}
        \cup [kind : {"object"}, version : {NoVersion, "", "v1", "v2"}]

\* PYRE_BINARY: unset, empty or set.
NoOverride == "<None>"

Overrides == {NoOverride, "", "bin"}

\* local_path: None or a directory.
LocalPaths == {None, <<"a", "ab">>}

\* Python's truth of an Optional[str].
truthy(string) == string \notin {"<None>", ""}

\* Lines 87-90: open() and json.loads() raise on a missing or malformed
\* file; pop("version", None) gives the version or None.
read_version(file) ==
    [raised |-> file.kind # "object", version |-> file.version]

\* Lines 82-107.
get_binary_version_from_file(override, local_path, local, project) ==
    IF truthy(override)
    THEN [raised |-> FALSE, value |-> "override: " \o override]
    ELSE LET local_read == read_version(local)
             project_read == read_version(project)
             \* lines 94-99, inside the try block
             local_raised == local_path # None /\ local_read.raised
             first == IF local_path # None /\ ~local_read.raised
                      THEN local_read.version ELSE NoVersion
             \* lines 101-103, reached only if nothing was raised
             version == IF local_raised THEN NoVersion
                        ELSE IF truthy(first) THEN first
                        ELSE IF project_read.raised THEN NoVersion
                        ELSE project_read.version
         IN \* lines 104-107: except Exception: pass
            [raised |-> FALSE,
             value |-> IF truthy(version) THEN version
                       ELSE "No version set"]

NoResult == [raised |-> FALSE, value |-> "<None>"]

VersionParked ==
    /\ versionInput = [override |-> NoOverride, local_path |-> None,
                       local_file |-> [kind |-> "missing",
                                       version |-> NoVersion],
                       project_file |-> [kind |-> "missing",
                                         version |-> NoVersion]]
    /\ versionResult = NoResult
    /\ versionPc = "parked"

VersionInit ==
    /\ versionInput \in [override : Overrides, local_path : LocalPaths,
                          local_file : ConfigurationFiles,
                          project_file : ConfigurationFiles]
    /\ versionResult = NoResult
    /\ versionPc = "start"

\* One call of get_binary_version_from_file.
ReadVersion ==
    /\ versionPc = "start"
    /\ versionResult' =
           get_binary_version_from_file(
               versionInput.override, versionInput.local_path,
               versionInput.local_file, versionInput.project_file)
    /\ versionPc' = "read"
    /\ UNCHANGED <<versionInput, notVersion>>

(***************************************************************************)
(* run_global_version_update (src/tools/upgrade/upgrade.py, lines          *)
(* 410-461). A configuration file is its "version" key, absent or set; a   *)
(* local one also has its push_blocking key and whether its path contains  *)
(* "mock_repository".                                                      *)
(***************************************************************************)
Locals == 1..MaxLocals

\* The project configuration: not found, or a file with or without a
\* version.
GlobalConfigurations ==
    {[found |-> FALSE, version |-> NoVersion]}
        \cup [found : {TRUE}, version : {NoVersion, "old"}]

LocalConfigurations ==
    [version : {NoVersion, "v0"}, push_blocking : BOOLEAN, mock : BOOLEAN]

\* update-global-version hash [-p] [--paths ...] (lines 621-633).
UpgradeArguments ==
    [hash : {"new"}, push_blocking_only : BOOLEAN, paths : SUBSET Locals]

\* Line 82 without its test: every local configuration is gathered.
gather_every_local_configuration(args, locals) == Locals

\* Lines 59-90: the local configurations found, the push-blocking ones
\* alone with --push-blocking-only.
gather_local_configurations(args, locals) ==
    {l \in Locals : locals[l].push_blocking \/ ~args.push_blocking_only}

\* Lines 432-441: the --paths given, or else the configurations gathered.
configuration_paths(args, locals) ==
    IF args.paths # {} THEN args.paths
    ELSE gather_local_configurations(args, locals)

\* Lines 442-457: the local configurations rewritten with the old version.
rewritten(args, locals) ==
    {l \in configuration_paths(args, locals) :
        ~locals[l].mock /\ locals[l].version = NoVersion}

\* Lines 410-461: the files after the call.
run_global_version_update(args, global, locals) ==
    IF ~global.found \/ global.version = NoVersion
    THEN [global |-> global, locals |-> locals]
    ELSE [global |-> [global EXCEPT !.version = args.hash],
          locals |-> [l \in Locals |->
                        IF l \in rewritten(args, locals)
                        THEN [locals[l] EXCEPT !.version = global.version]
                        ELSE locals[l]]]

UpgradeParked ==
    /\ upgradeArguments = [hash |-> "new", push_blocking_only |-> FALSE,
                           paths |-> {}]
    /\ globalConfiguration = [found |-> FALSE, version |-> NoVersion]
    /\ localConfigurations = <<>>
    /\ upgradeBefore = [global |-> globalConfiguration,
                        locals |-> localConfigurations]
    /\ upgradePc = "parked"

UpgradeInit ==
    /\ upgradeArguments \in UpgradeArguments
    /\ globalConfiguration \in GlobalConfigurations
    /\ localConfigurations \in [Locals -> LocalConfigurations]
    /\ upgradeBefore = [global |-> globalConfiguration,
                        locals |-> localConfigurations]
    /\ upgradePc = "start"

\* One call of run_global_version_update.
RunGlobalVersionUpdate ==
    /\ upgradePc = "start"
    /\ LET after == run_global_version_update(
                        upgradeArguments, globalConfiguration,
                        localConfigurations)
       IN /\ globalConfiguration' = after.global
          /\ localConfigurations' = after.locals
    /\ upgradePc' = "done"
    /\ UNCHANGED <<upgradeArguments, upgradeBefore, notUpgrade>>

(***************************************************************************)
(* The specifications.                                                     *)
(***************************************************************************)
RootNext == SwitchRoot \/ FindLogDirectory

\* Root resolution from any starting directory of any tree.
SpecRootInit == RootInit /\ DirParked /\ DaemonParked /\ MainParked /\ RaceParked /\ FlagsParked
    /\ FilterParked
    /\ VersionParked
    /\ UpgradeParked

SpecRoot == SpecRootInit /\ [][RootNext]_vars

DirNext == ResolveAnalysisDirectory

\* Directory selection for any arguments and configuration.
SpecDirInit == DirInit /\ RootParked /\ DaemonParked /\ MainParked /\ RaceParked /\ FlagsParked
    /\ FilterParked
    /\ VersionParked
    /\ UpgradeParked

SpecDir == SpecDirInit /\ [][DirNext]_vars

MainNext ==
    \/ MainBegin
    \/ MainSwitchRoot
    \/ MainRaise
    \/ MainInitialize
    \/ MainVersion
    \/ MainConfiguration
    \/ MainKillDirectory
    \/ MainResolveDirectory
    \/ RunStart
    \/ RunStop
    \/ RunKill
    \/ RunRestartStop
    \/ RunRestartStart
    \/ RunIncremental
    \/ RunCheck
    \/ RunQuery
    \/ RunOther
    \/ MainExcept
    \/ MainFinally
    \/ MainExit

SpecInit == MainInit /\ DaemonInit /\ RootParked /\ DirParked /\ RaceParked /\ FlagsParked
    /\ FilterParked
    /\ VersionParked
    /\ UpgradeParked

\* Invocations of main, one after the other, against the daemon.
Spec == SpecInit /\ [][MainNext]_vars

RaceNext == \E i \in Starters : RaceProbe(i) \/ RaceSpawn(i)

SpecRaceInit == RaceInit /\ RootParked /\ DirParked /\ MainParked /\ FlagsParked
    /\ FilterParked
    /\ VersionParked
    /\ UpgradeParked

\* Start invocations for the same root at the same time.
SpecRace == SpecRaceInit /\ [][RaceNext]_vars

FlagsNext == BuildFlags \/ SetLogger

SpecFlagsInit ==
    FlagsInit /\ RootParked /\ DirParked /\ DaemonParked /\ MainParked
        /\ RaceParked /\ FilterParked
    /\ VersionParked
    /\ UpgradeParked

FilterNext == ResolveFilterPaths

SpecFilterInit ==
    FilterInit /\ RootParked /\ DirParked /\ DaemonParked /\ MainParked
        /\ RaceParked /\ FlagsParked
    /\ VersionParked
    /\ UpgradeParked

\* The filter paths for any arguments and configuration.
SpecFilter == SpecFilterInit /\ [][FilterNext]_vars

VersionNext == ReadVersion

SpecVersionInit ==
    VersionInit /\ RootParked /\ DirParked /\ DaemonParked /\ MainParked
        /\ RaceParked /\ FlagsParked /\ FilterParked
    /\ UpgradeParked

\* The version reported for any environment and configuration files.
SpecVersion == SpecVersionInit /\ [][VersionNext]_vars

UpgradeNext == RunGlobalVersionUpdate

SpecUpgradeInit ==
    UpgradeInit /\ RootParked /\ DirParked /\ DaemonParked /\ MainParked
        /\ RaceParked /\ FlagsParked /\ FilterParked /\ VersionParked

\* update-global-version for any arguments and configuration files.
SpecUpgrade == SpecUpgradeInit /\ [][UpgradeNext]_vars

\* The flag list of a command, built before and after a logger is set.
SpecFlags == SpecFlagsInit /\ [][FlagsNext]_vars

(***************************************************************************)
(* Root resolution: the properties.                                        *)
(***************************************************************************)
\* The nearest project root and local root above the starting directory.
NearestGlobal == find_root(arguments.original_directory, globalMarkers)

NearestLocal == find_root(arguments.original_directory, localMarkers)

SwitchRootDone == rootPc \in {"switched", "logged", "raised"}

SwitchRootReturned == rootPc \in {"switched", "logged"}

LocalConfigurationNotSet ==
    arguments.local_configuration = arguments.explicit_local_configuration

\* Some local marker lies under another directory holding a local marker.
NestedLocalMarkers == \E p, q \in localMarkers : StrictAncestor(p, q)

\* ... and the starting directory is in or under the deeper of the two.
NestedLocalMarkersAboveStart ==
    \E p, q \in localMarkers :
        StrictAncestor(p, q) /\ IsPrefix(q, arguments.original_directory)

\* C1 as stated: whenever the tree holds a local marker nested under
\* another local marker, switch_root raises the nesting
\* EnvironmentException and sets no local configuration.
C1_NestedAnywhereRaises ==
    (SwitchRootDone /\ NestedLocalMarkers) =>
        (rootRaised = "EnvironmentException" /\ LocalConfigurationNotSet)

\* C1 amended: switch_root raises the nesting EnvironmentException, and
\* sets no local configuration, exactly when the starting directory lies
\* in or under the deeper of two nested local markers.
C1_NestedAboveStartRaises ==
    SwitchRootDone =>
        /\ (rootRaised = "EnvironmentException") <=> NestedLocalMarkersAboveStart
        /\ rootRaised = "EnvironmentException" => LocalConfigurationNotSet

C1_Witness ==
    /\ rootPc = "raised"
    /\ rootRaised = "EnvironmentException"
    /\ NestedLocalMarkersAboveStart
    /\ Cardinality(localMarkers) >= 2

\* C2 as stated: after switch_root, a local root strictly under the
\* project root has become arguments.local_configuration; a local root
\* strictly above the project root is discarded.
C2_LocalHonoredOrDiscarded ==
    SwitchRootReturned =>
        /\ (NearestGlobal # None /\ NearestLocal # None
              /\ StrictAncestor(NearestGlobal, NearestLocal))
           => arguments.local_configuration = NearestLocal
        /\ (NearestGlobal # None /\ NearestLocal # None
              /\ StrictAncestor(NearestLocal, NearestGlobal))
           => LocalConfigurationNotSet

\* C2 amended: the local root under the project root becomes
\* arguments.local_configuration when no local configuration was given
\* explicitly (an explicit one is kept); a local root above the project
\* root is discarded.
C2_LocalHonoredUnlessExplicit ==
    SwitchRootReturned =>
        /\ (NearestGlobal # None /\ NearestLocal # None
              /\ StrictAncestor(NearestGlobal, NearestLocal))
           => arguments.local_configuration =
                  IF arguments.explicit_local_configuration = None
                  THEN NearestLocal
                  ELSE arguments.explicit_local_configuration
        /\ (NearestGlobal # None /\ NearestLocal # None
              /\ StrictAncestor(NearestLocal, NearestGlobal))
           => LocalConfigurationNotSet

C2_Witness ==
    /\ SwitchRootReturned
    /\ NearestGlobal # None
    /\ NearestLocal # None
    /\ StrictAncestor(NearestGlobal, NearestLocal)
    /\ arguments.explicit_local_configuration = None
    /\ arguments.local_configuration = NearestLocal

\* C3: the log directory find_log_directory computes is <root>/.pyre or a
\* path inside it.
C3_LogDirectoryInsidePyre ==
    rootPc = "logged" =>
        IsPrefix(join(arguments.current_directory, <<".pyre">>),
                 normpath(arguments.log_directory))

(***************************************************************************)
(* Analysis-directory selection: the properties.                           *)
(***************************************************************************)
\* The source directories and targets in play: the configuration's when
\* the command line gives neither, the command line's otherwise.
ArgumentsGiveNeither ==
    dirArguments.source_directories = <<>> /\ dirArguments.targets = <<>>

SourcesInPlay ==
    IF ArgumentsGiveNeither THEN dirConfiguration.source_directories
    ELSE dirArguments.source_directories

TargetsInPlay ==
    IF ArgumentsGiveNeither THEN dirConfiguration.targets
    ELSE dirArguments.targets

OneSourceNoTargets == Len(SourcesInPlay) = 1 /\ Len(TargetsInPlay) = 0

\* The accelerated builder is asked for and Buck has no root above the
\* working directory.
AcceleratedWithoutBuckRoot ==
    /\ dirArguments.use_buck_builder \/ dirConfiguration.use_buck_builder
    /\ ~dirArguments.use_legacy_builder
    /\ ~buckRootFound

DirectOnTheOneSource ==
    /\ analysisResult.kind = "AnalysisDirectory"
    /\ analysisResult.path = <<SourcesInPlay[1]>>

\* C4 as stated: the result is the Direct variant on the one source
\* directory if and only if exactly one source directory and no target
\* are in play, and the Overlay variant in every other case.
C4_DirectIffOneSourceElseOverlay ==
    dirPc = "resolved" =>
        IF OneSourceNoTargets THEN DirectOnTheOneSource
        ELSE analysisResult.kind = "SharedAnalysisDirectory"

\* C4 amended: Direct on the one source directory if and only if exactly
\* one source directory and no target are in play; in every other case
\* the Overlay variant, unless the accelerated builder is asked for and
\* no Buck root is found, where EnvironmentException is raised instead.
C4_DirectIffOneSourceElseOverlayOrRaise ==
    dirPc = "resolved" =>
        IF OneSourceNoTargets THEN DirectOnTheOneSource
        ELSE IF AcceleratedWithoutBuckRoot
        THEN /\ analysisResult.kind = "none"
             /\ analysisResult.raised = "EnvironmentException"
        ELSE /\ analysisResult.kind = "SharedAnalysisDirectory"
             /\ analysisResult.raised = NoException

C4_Witness ==
    /\ dirPc = "resolved"
    /\ OneSourceNoTargets
    /\ DirectOnTheOneSource
    /\ ~ArgumentsGiveNeither


(***************************************************************************)
(* The daemon and main: the properties.                                    *)
(***************************************************************************)
\* The lock file holds the pid of a live process.
LockOfLiveProcess ==
    /\ lockFile # None
    /\ IsNumeric(lockFile)
    /\ int(lockFile) \in alive

\* The command of the invocation ran to its exit code; TRUE from the end of
\* run() to the return of main.
CommandRan == pc \in {"finally", "done"} /\ ran

\* C5: the server state is RUNNING exactly when the lock file exists, its
\* content parses as a process id and that process is alive; no lock file,
\* a content that is no number and a stale pid are all DEAD, and there is
\* no third state.
C5_RunningIffLockOfLiveProcess ==
    /\ State \in {"RUNNING", "DEAD"}
    /\ State = "RUNNING" <=> LockOfLiveProcess
    /\ lockFile = None => State = "DEAD"
    /\ lockFile = Garbage => State = "DEAD"
    /\ (IsNumeric(lockFile) /\ int(lockFile) \notin alive) => State = "DEAD"
    /\ stateAtRun \in {"none", "RUNNING", "DEAD"}

\* C5, its case: a command found the daemon RUNNING on the lock file "1" of
\* the live process 1.
C5_Witness ==
    /\ CommandRan
    /\ invocation.command = "check"
    /\ stateAtRun = "RUNNING"
    /\ lockFile = str(1)
    /\ 1 \in alive

\* C6: at most one daemon exists per project root in every interleaving of
\* concurrent start invocations: the invocation that loses the race sees
\* the winner's daemon RUNNING and spawns none.
C6_AtMostOneDaemon == Cardinality(alive) <= 1

\* C7: after a kill the server state is DEAD and the lock file is absent,
\* whatever the state was before (RUNNING, DEAD, stale or corrupt lock).
C7_KillLeavesDeadAndNoLock ==
    (CommandRan /\ invocation.command = "kill")
        => (State = "DEAD" /\ lockFile = None)

\* C7, its case: a kill of a running daemon has completed.
C7_Witness ==
    /\ pc = "done"
    /\ ran
    /\ invocation.command = "kill"
    /\ stateAtRun = "RUNNING"
    /\ State = "DEAD"

\* C8: a restart issued while the session is DEAD succeeds and ends with
\* the session RUNNING: the stop step does not fail the operation and the
\* start step is performed.
C8_RestartOnDeadEndsRunning ==
    (CommandRan /\ invocation.command = "restart" /\ stateAtRun = "DEAD")
        => /\ State = "RUNNING"
           /\ exit_code = SUCCESS
           /\ pc = "done" => returned = SUCCESS

\* C8, its case: a restart on a dead session has returned.
C8_Witness ==
    /\ pc = "done"
    /\ ran
    /\ invocation.command = "restart"
    /\ stateAtRun = "DEAD"
    /\ State = "RUNNING"

\* C9: issued while the daemon is DEAD, an operation brings the daemon to
\* RUNNING only when it is start, restart or incremental, and incremental
\* does; check leaves the state DEAD; query fails with an error and leaves
\* the state DEAD.
C9_OnlyStartRestartIncrementalStart ==
    (pc = "done" /\ stateAtRun = "DEAD")
        => /\ State = "RUNNING"
                => /\ ran
                   /\ invocation.command \in {"start", "restart", "incremental"}
           /\ (ran /\ invocation.command \in {"start", "restart", "incremental"})
                => State = "RUNNING"
           /\ invocation.command = "check" => State = "DEAD"
           /\ invocation.command = "query"
                => /\ State = "DEAD"
                   /\ raised = "ClientException"
                   /\ returned = FAILURE

\* C9, its case: an incremental on a dead daemon has returned.
C9_Witness ==
    /\ pc = "done"
    /\ ran
    /\ invocation.command = "incremental"
    /\ stateAtRun = "DEAD"
    /\ State = "RUNNING"

\* C10: the value main returns is one of SUCCESS, FAILURE and BUCK_ERROR on
\* every path: the completion of any command, the early returns, every
\* handled exception class and the interruption by the user.
C10_ReturnsOneOfThreeExitCodes ==
    pc = "done" => returned \in ExitCode

\* C10, its case: main has returned BUCK_ERROR from the handler of a
\* BuckException.
C10_Witness ==
    /\ pc = "done"
    /\ raised = "BuckException"
    /\ returned = BUCK_ERROR


\* The class of the error raised gives the exit code, and the command has
\* not completed.
ErrorClassDecidesExitCode ==
    /\ (pc = "done" /\ raised = "BuckException") => returned = BUCK_ERROR
    /\ (/\ pc = "done"
        /\ raised \in {"EnvironmentException", "ClientException", "Exception"})
            => returned = FAILURE
    /\ (pc \in {"except", "finally", "done"} /\ raised # NoException) => ~ran

\* From a handler main goes to the finally block and from there to its
\* return: nothing is run again.
HandledOnce ==
    /\ pc = "except" => pc' = "finally"
    /\ (pc = "finally" /\ raised # NoException) => pc' = "done"

\* C11: the exit code of main follows the class of the error raised in the
\* try block: BuckException gives BUCK_ERROR; EnvironmentException,
\* ClientException and any other Exception give FAILURE; the error is not
\* retried and main returns.
C11_ExitCodeByErrorClass ==
    []ErrorClassDecidesExitCode /\ [][HandledOnce]_vars

\* C11, its case: main has returned after an uncategorized exception.
C11_Witness ==
    /\ pc = "done"
    /\ raised = "Exception"
    /\ returned = FAILURE

\* C12: a KeyboardInterrupt raised inside the try block makes main return
\* SUCCESS.
C12_InterruptReturnsSuccess ==
    (pc = "done" /\ raised = "KeyboardInterrupt") => returned = SUCCESS

\* C12, its case: main has returned after an interruption of the start
\* step of a restart.
C12_Witness ==
    /\ pc = "done"
    /\ raised = "KeyboardInterrupt"
    /\ invocation.command = "restart"
    /\ stateAtRun # "none"
    /\ returned = SUCCESS

AcceleratedWithoutRoot ==
    directoryRequest.accelerated /\ ~directoryRequest.buck_root

\* The invocation is fatal: no analysis directory, no command run, no
\* daemon contacted, FAILURE returned.
Fatal ==
    /\ analysis_directory = NoAnalysisDirectory
    /\ ~ran
    /\ stateAtRun = "none"
    /\ interactions = 0
    /\ pc = "done" => returned = FAILURE

\* C14 as stated: whenever the accelerated build is requested and no
\* build-tool root is discoverable, the invocation is fatal: no analysis
\* directory, no command run, exit FAILURE.
C14_AcceleratedWithoutRootIsFatal ==
    (pc \in {"run", "except", "finally", "done"} /\ AcceleratedWithoutRoot)
        => Fatal

\* C14 amended: when main resolves the analysis directory of a command
\* other than kill, the accelerated build is requested, no build-tool root
\* is discoverable, and the sources in play are not exactly one source
\* directory without targets, the invocation is fatal with an
\* EnvironmentException; with a build-tool root the overlay is built with
\* the accelerated builder, never the on-demand one.
C14_OverlayAcceleratedWithoutRootIsFatal ==
    (pc \in {"run", "except", "finally", "done"} /\ directoryRequest.resolved)
        => /\ (AcceleratedWithoutRoot /\ ~directoryRequest.direct)
                => (raised = "EnvironmentException" /\ Fatal)
           /\ (directoryRequest.accelerated /\ ~directoryRequest.direct
                   /\ directoryRequest.buck_root)
                => /\ analysis_directory.kind = "SharedAnalysisDirectory"
                   /\ analysis_directory.buck_builder = "FastBuckBuilder"
           /\ directoryRequest.direct
                => analysis_directory.kind = "AnalysisDirectory"

\* C14, its case: main has returned FAILURE for an overlay asked with the
\* accelerated build and no build-tool root.
C14_Witness ==
    /\ pc = "done"
    /\ directoryRequest.resolved
    /\ AcceleratedWithoutRoot
    /\ ~directoryRequest.direct
    /\ raised = "EnvironmentException"
    /\ returned = FAILURE

\* C15: once main has constructed an analysis directory, its cleanup() is
\* called on every exit path: the completion of the command, a handled
\* build, environment or client error, an uncategorized exception and an
\* interruption.
C15_CleanupOnEveryExit ==
    (pc = "done" /\ analysis_directory # NoAnalysisDirectory) => cleaned

\* C15, its case: main has returned after a build error of a command on a
\* constructed overlay, and the overlay was cleaned up.
C15_Witness ==
    /\ pc = "done"
    /\ analysis_directory.kind = "SharedAnalysisDirectory"
    /\ raised = "BuckException"
    /\ cleaned


\* The layout of the flag list: logging sections, project root, logger.
FlagsLayout ==
    /\ Len(flagsList) = IF flagsInput.logger = NoLogger THEN 4 ELSE 6
    /\ flagsList[1] = "-logging-sections"
    /\ flagsList[2] = join_sections(flagsInput.sections)
    /\ flagsList[3] = "-project-root"
    /\ flagsList[4] = flagsInput.project_root
    /\ flagsInput.logger # NoLogger
            => (flagsList[5] = "-logger" /\ flagsList[6] = flagsInput.logger)

C17_VersionBypassesEverything ==
    (pc = "done" /\ invocation.version)
        => /\ ~ran
           /\ ~loadedConfiguration.loaded
           /\ analysis_directory = NoAnalysisDirectory
           /\ stateAtRun = "none"
           /\ interactions = 0
           /\ raised = NoException => returned = SUCCESS

\* C18: for kill main never calls resolve_analysis_directory: it uses
\* AnalysisDirectory("."), so no build is selected and no build-tool or
\* missing-build-root error keeps kill from the daemon, whatever source
\* directories, targets and builder flags are given.
C18_KillBypassesResolution ==
    invocation.command = "kill"
        => /\ ~directoryRequest.resolved
           /\ analysis_directory \in {NoAnalysisDirectory, CurrentDirectory}
           /\ ~analysis_directory.build
           /\ raised # "BuckException"
           /\ directoryRequest # NoRequest
                => analysis_directory = CurrentDirectory
           /\ (pc = "run" /\ AcceleratedWithoutRoot) => raised = NoException

\* C18, its case: a kill with the accelerated build asked for, several
\* sources and no build-tool root has reached the daemon.
C18_Witness ==
    /\ pc = "done"
    /\ invocation.command = "kill"
    /\ ran
    /\ AcceleratedWithoutRoot
    /\ ~directoryRequest.direct
    /\ stateAtRun = "RUNNING"
    /\ State = "DEAD"

\* C19: restart is stop then start, two sequential steps: between the stop
\* and the spawn no daemon runs, a restart that crashes between the two
\* leaves the state DEAD, and a later start from there succeeds.
C19_RestartStopThenStart ==
    /\ pc = "restart_start" => (State = "DEAD" /\ interactions = 1)
    /\ (/\ pc \in {"except", "finally", "done"}
        /\ ended("done", invocation.command, raised, stateAtRun)
               = "restart_crashed")
            => State = "DEAD"
    /\ (previous = "restart_crashed" /\ CommandRan
           /\ invocation.command = "start")
            => /\ stateAtRun = "DEAD"
               /\ State = "RUNNING"
               /\ exit_code = SUCCESS

\* C19, its case: a start after a restart that crashed between its steps
\* has returned.
C19_Witness ==
    /\ previous = "restart_crashed"
    /\ pc = "done"
    /\ ran
    /\ invocation.command = "start"
    /\ State = "RUNNING"
    /\ returned = SUCCESS

\* C20 as stated: every invocation (that no error cuts short) performs
\* exactly one daemon interaction, except restart, which performs exactly
\* two.
C20_ExactlyOneInteraction ==
    (pc = "done" /\ raised = NoException)
        => interactions = IF invocation.command = "restart" THEN 2 ELSE 1

\* C20 amended: an invocation performs at most one daemon interaction,
\* restart at most two; a completed restart performs exactly two, a
\* completed start, stop, kill, incremental or query exactly one, check,
\* analyze, initialize and rage none, and so does an invocation that
\* returns early or fails before its command runs.
C20_AtMostOneInteraction ==
    pc \in {"finally", "done"}
        => /\ interactions <= IF invocation.command = "restart" THEN 2 ELSE 1
           /\ (ran /\ invocation.command = "restart") => interactions = 2
           /\ (ran /\ invocation.command \in
                       {"start", "stop", "kill", "incremental", "query"})
                => interactions = 1
           /\ invocation.command \in {"check", "analyze", "initialize", "rage"}
                => interactions = 0
           /\ stateAtRun = "none" => interactions = 0

\* C20, its case: a restart has completed with its two interactions.
C20_Witness ==
    /\ pc = "done"
    /\ ran
    /\ invocation.command = "restart"
    /\ interactions = 2


(***************************************************************************)
(* Directory selection: the builder, the build flag, the sources.          *)
(***************************************************************************)
\* An overlay was constructed.
OverlayConstructed ==
    dirPc = "resolved" /\ analysisResult.kind = "SharedAnalysisDirectory"

\* C21 as stated: an overlay has exactly one builder: FastBuckBuilder when
\* the use-accelerated flag of the invocation is set and use-legacy is
\* not, SimpleBuckBuilder in every other case.
C21_BuilderByFlagsOfInvocation ==
    OverlayConstructed
        => /\ analysisResult.buck_builder
                \in {"FastBuckBuilder", "SimpleBuckBuilder"}
           /\ analysisResult.buck_builder = "FastBuckBuilder"
                <=> (/\ dirArguments.use_buck_builder
                     /\ ~dirArguments.use_legacy_builder)

\* C21 amended: an overlay has exactly one builder: FastBuckBuilder when
\* use_buck_builder is set by the invocation or by the configuration and
\* use-legacy is not set, SimpleBuckBuilder in every other case.
C21_BuilderByFlagsAndConfiguration ==
    OverlayConstructed
        => /\ analysisResult.buck_builder
                \in {"FastBuckBuilder", "SimpleBuckBuilder"}
           /\ analysisResult.buck_builder = "FastBuckBuilder"
                <=> (/\ \/ dirArguments.use_buck_builder
                        \/ dirConfiguration.use_buck_builder
                     /\ ~dirArguments.use_legacy_builder)

\* C21, its case: an overlay with the accelerated builder that only the
\* configuration asks for.
C21_Witness ==
    /\ OverlayConstructed
    /\ ~dirArguments.use_buck_builder
    /\ dirConfiguration.use_buck_builder
    /\ analysisResult.buck_builder = "FastBuckBuilder"

\* C22: the on-demand builder has build enabled exactly when the
\* invocation passes the build flag or the command is check, analyze or
\* restart.
C22_BuildFlagOrOneShot ==
    (OverlayConstructed /\ analysisResult.buck_builder = "SimpleBuckBuilder")
        => (analysisResult.build
                <=> \/ dirArguments.build
                    \/ dirCommand \in {"check", "analyze", "restart"})

\* C22, its case: the on-demand builder of a restart without the build
\* flag builds.
C22_Witness ==
    /\ OverlayConstructed
    /\ analysisResult.buck_builder = "SimpleBuckBuilder"
    /\ dirCommand = "restart"
    /\ ~dirArguments.build
    /\ analysisResult.build

\* C23: the source directories and targets both come from the
\* configuration when the invocation gives neither; as soon as it gives
\* either kind both come from the invocation, an ungiven kind being empty.
C23_SourcesFromOneOrigin ==
    /\ OverlayConstructed
            => IF ArgumentsGiveNeither
               THEN /\ analysisResult.source_directories
                          = dirConfiguration.source_directories
                    /\ analysisResult.targets = dirConfiguration.targets
               ELSE /\ analysisResult.source_directories
                          = dirArguments.source_directories
                    /\ analysisResult.targets = dirArguments.targets
    /\ (dirPc = "resolved" /\ analysisResult.kind = "AnalysisDirectory")
            => analysisResult.path
                  = IF ArgumentsGiveNeither
                    THEN <<Last(dirConfiguration.source_directories)>>
                    ELSE <<Last(dirArguments.source_directories)>>

\* C23, its case: the invocation gives targets only and the configuration
\* has source directories, which the overlay does not get.
C23_Witness ==
    /\ OverlayConstructed
    /\ dirArguments.source_directories = <<>>
    /\ dirArguments.targets # <<>>
    /\ dirConfiguration.source_directories # <<>>
    /\ analysisResult.source_directories = <<>>
    /\ analysisResult.targets = dirArguments.targets

\* C25: resolve_analysis_directory never mutates the configuration it is
\* given: source_directories hold the same value after the call as before,
\* in the Direct case as in the Overlay case.
C25_ConfigurationNotMutated ==
    dirPc = "resolved"
        => analysisResult.configuration_source_directories
              = dirConfiguration.source_directories


(***************************************************************************)
(* The filter paths: the properties.                                       *)
(***************************************************************************)
\* The invocation gives source directories or targets.
FilterExplicit ==
    \/ filterArguments.source_directories # <<>>
    \/ filterArguments.targets # <<>>

\* The explicit source directories, then the directories of the explicit
\* targets, each made absolute from the original directory.
ExplicitPathsTranslated ==
    LET sources == filterArguments.source_directories
        targets == filterArguments.targets
        absolute(path) ==
            IF path[1] = "/" THEN path
            ELSE filterArguments.original_directory \o path
    IN [i \in 1..(Len(sources) + Len(targets)) |->
           IF i <= Len(sources) THEN absolute(sources[i])
           ELSE absolute(targets[i - Len(sources)].root)]

\* The local root made absolute, or nothing.
LocalRootOrNothing ==
    LET root == filterConfiguration.local_configuration_root
    IN IF root = None THEN <<>>
       ELSE IF root[1] = "/" THEN <<root>>
       ELSE <<filterArguments.original_directory \o root>>

\* C24 as stated: the filter paths are the explicit source directories and
\* targets, made absolute from the original directory, when any were
\* passed; otherwise the local root if there is one, otherwise empty.
C24_FilterPathsFromExplicitOrLocalRoot ==
    filterPc = "resolved"
        => filterPaths = IF FilterExplicit THEN ExplicitPathsTranslated
                         ELSE LocalRootOrNothing

\* C24 amended: with --filter-directory the filter paths are that
\* directory alone, as given; without it they are the explicit source
\* directories and the presumed root directories of the explicit targets,
\* made absolute from the original directory, when any were passed;
\* otherwise the local root if there is one, otherwise empty.
C24_FilterPathsUnlessFilterDirectory ==
    filterPc = "resolved"
        => filterPaths =
              IF filterArguments.filter_directory # None
              THEN <<filterArguments.filter_directory>>
              ELSE IF FilterExplicit THEN ExplicitPathsTranslated
              ELSE LocalRootOrNothing

\* C24, its case: a relative source directory and a target, without
\* --filter-directory, from the original directory /a/ab.
C24_Witness ==
    /\ filterPc = "resolved"
    /\ filterArguments.filter_directory = None
    /\ filterArguments.original_directory = <<"/", "a", "ab">>
    /\ filterArguments.source_directories = <<<<"x">>>>
    /\ Len(filterArguments.targets) = 1
    /\ filterPaths = <<<<"/", "a", "ab", "x">>, <<"/", "a", "ab", "t">>>>


(***************************************************************************)
(* The no-op responder, the isolate flag and the disabled configuration.   *)
(***************************************************************************)
\* C26: a build-tool error of persistent starts the no-op responder and
\* main still ends with BUCK_ERROR; a build-tool error of any other command
\* never starts it.
C26_NullServerOnlyForPersistent ==
    (pc \in {"finally", "done"} /\ raised = "BuckException")
        => /\ nullServer <=> invocation.command = "persistent"
           /\ exit_code = BUCK_ERROR
           /\ pc = "done" => returned = BUCK_ERROR

\* C26, its case: persistent met a build-tool error, the no-op responder
\* ran and main returned BUCK_ERROR.
C26_Witness ==
    /\ pc = "done"
    /\ invocation.command = "persistent"
    /\ raised = "BuckException"
    /\ nullServer
    /\ returned = BUCK_ERROR

\* C27: the overlay main constructs is isolated exactly when the command
\* is check or analyze and --use-global-shared-analysis-directory is not
\* given; for every other command, and for a directory that is no overlay,
\* isolate is false.
C27_IsolateOnlyForOneShot ==
    (pc \in {"run", "restart_start", "except", "finally", "done"}
        /\ analysis_directory # NoAnalysisDirectory)
        => (analysis_directory.isolate
               <=> /\ analysis_directory.kind = "SharedAnalysisDirectory"
                   /\ invocation.command \in {"check", "analyze"}
                   /\ ~directoryRequest.use_global_shared_analysis_directory)

\* C27, its case: check, without the flag, is given an isolated directory.
C27_Witness ==
    /\ pc = "run"
    /\ invocation.command = "check"
    /\ ~directoryRequest.use_global_shared_analysis_directory
    /\ analysis_directory.kind = "SharedAnalysisDirectory"
    /\ analysis_directory.isolate

\* C28: with a disabled Configuration main returns SUCCESS, constructs no
\* analysis directory and runs no command: the daemon is neither started,
\* stopped, killed nor queried.
C28_DisabledDoesNothing ==
    (pc \in {"configured", "run", "restart_start", "except", "finally",
              "done"}
        /\ loadedConfiguration.disabled)
        => /\ pc \in {"finally", "done"}
           /\ returning = SUCCESS
           /\ pc = "done" => returned = SUCCESS
           /\ analysis_directory = NoAnalysisDirectory
           /\ ~ran
           /\ stateAtRun = "none"
           /\ interactions = 0
           /\ raised = NoException

\* C28 leaves the daemon as it was.
C28_DisabledLeavesDaemon ==
    [][loadedConfiguration.disabled => UNCHANGED daemonVars]_vars

\* C28: both together.
C28_DisabledReturnsSuccess ==
    []C28_DisabledDoesNothing /\ C28_DisabledLeavesDaemon

\* C28, its case: start, with a disabled Configuration, returned SUCCESS.
C28_Witness ==
    /\ pc = "done"
    /\ loadedConfiguration.disabled
    /\ invocation.command = "start"
    /\ returned = SUCCESS
    /\ ~ran


(***************************************************************************)
(* The version reported from the files.                                    *)
(***************************************************************************)
\* The version a configuration file makes available, if any.
available(file) == file.kind = "object" /\ truthy(file.version)

\* C29: the call reports the first available of the PYRE_BINARY override,
\* the version of the local configuration when a local path is given, and
\* the version of the project configuration; it reports "No version set"
\* only when none of the three is available, and it never raises.
C29_FirstAvailableVersion ==
    versionPc = "read"
        => /\ ~versionResult.raised
           /\ versionResult.value =
                  IF truthy(versionInput.override)
                  THEN "override: " \o versionInput.override
                  ELSE IF /\ versionInput.local_path # None
                          /\ available(versionInput.local_file)
                  THEN versionInput.local_file.version
                  ELSE IF available(versionInput.project_file)
                  THEN versionInput.project_file.version
                  ELSE "No version set"


(***************************************************************************)
(* update-global-version.                                                  *)
(***************************************************************************)
\* The global configuration had a version field.
HadVersion ==
    upgradeBefore.global.found /\ upgradeBefore.global.version # NoVersion

\* No configuration file was modified.
NothingModified ==
    /\ globalConfiguration = upgradeBefore.global
    /\ localConfigurations = upgradeBefore.locals

\* The local configurations the call selects: those of --paths, or else
\* those found, the push-blocking ones alone with --push-blocking-only;
\* never one whose path contains "mock_repository".
Selected ==
    {l \in Locals :
        /\ ~upgradeBefore.locals[l].mock
        /\ IF upgradeArguments.paths # {} THEN l \in upgradeArguments.paths
           ELSE \/ ~upgradeArguments.push_blocking_only
                \/ upgradeBefore.locals[l].push_blocking}

====
